---- MODULE Spec2Model ----
(***************************************************************************)
(* State-machine model of src/main.py: a FastAPI application with the      *)
(* handlers transcribe_audio (POST /transcribe), enhance_text              *)
(* (POST /enhance) and transcribe_and_enhance (POST /transcribe-and-       *)
(* enhance), the lazily loaded global whisper_model and the temp files the *)
(* transcription handler creates.                                          *)
(*                                                                         *)
(* Scheduling.  All handlers are `async def`, so they run as coroutines of *)
(* one event loop (uvicorn.run, line 148).  A coroutine gives up the loop  *)
(* only at an await that suspends; the only such place is                  *)
(* `await audio.read()` (line 72).  whisper.load_model, model.transcribe,  *)
(* os.unlink and client.messages.create are synchronous calls.  The        *)
(* variable `running` is the coroutine that currently holds the loop.      *)
(***************************************************************************)
EXTENDS Integers, Sequences, FiniteSets, TLC

\* ---------------------------------------------------------------- bounds
NumReqs == 2                      \* requests of one process lifetime

Reqs == 1..NumReqs

\* -------------------------------------------------------- request inputs
\* An input is drawn where the handler first reads it: the filename at line
\* 66, the audio bytes at line 72, the task of /transcribe-and-enhance at
\* line 134, the body of /enhance at line 100.
Filenames == {"", "memo.mp3"}
Audios    == {"speech", "silence"}
Texts     == {" hello world", ""}
TaskInputs == {"cleanup", "summarize", "action_items", "format", "translate"}

\* ------------------------------------------------- values and exceptions
NoValue == [exc |-> "unset"]

Return(body) == [exc |-> "None", body |-> body]

HTTPException(status_code, detail) ==
    [exc |-> "HTTPException", status_code |-> status_code, detail |-> detail]

\* An exception raised by a library or by the operating system.
LibError(kind, msg) == [exc |-> kind, msg |-> msg]

IsReturn(v) == v.exc = "None"
IsRaise(v)  == v.exc \notin {"None", "unset"}

\* str(e).  For an HTTPException it is "" where the class defines no __str__
\* and "<status>: <detail>" where it does; the source pins no version.
StrOf(e) ==
    IF e.exc = "HTTPException"
    THEN {"", ToString(e.status_code) \o ": " \o e.detail}
    ELSE {e.msg}

\* The HTTP status the framework answers with.
Status(v) ==
    IF IsReturn(v) THEN 200
    ELSE IF v.exc = "HTTPException" THEN v.status_code
    ELSE 500

\* dict.get(key, default)
Get(d, key, default) == IF key \in DOMAIN d THEN d[key] ELSE default

\* ------------------------------------------------------------ whisper
\* model.transcribe(path): the result dict for the audio stored at path.
WhisperResult(audio) ==
    IF audio = "speech"
    THEN [text |-> " hello world", language |-> "en"]
    ELSE [text |-> ""]

\* line 38 with the None check lost: every call loads
AlwaysLoads(m) == TRUE

\* line 38: `if whisper_model is None`
ModelIsNone(m) == m = "None"

\* line 39: os.getenv("WHISPER_MODEL", "base")
LoadedModel == "base"

\* line 70: os.path.splitext(audio.filename)[1] or ".wav"
Splitext1(filename) == IF filename = "memo.mp3" THEN ".mp3" ELSE ""
Suffix(filename) ==
    IF Splitext1(filename) # "" THEN Splitext1(filename) ELSE ".wav"

\* lines 79-83: the success payload of transcribe_audio
TranscribeBody(result) ==
    [success |-> TRUE,
     text |-> result["text"],
     language |-> Get(result, "language", "unknown")]

\* line 85
TranscriptionFailed(e_str) ==
    HTTPException(500, "Transcription failed: " \o e_str)

\* ------------------------------------------------------------ enhance
\* lines 93-98
prompts ==
    [cleanup |-> "Clean up this transcribed speech. Fix grammar, punctuation, and formatting while preserving the original meaning. Return only the cleaned text:",
     summarize |-> "Summarize this transcribed speech concisely, capturing the key points:",
     action_items |-> "Extract action items and key tasks from this transcribed speech. Format as a bullet list:",
     format |-> "Format this transcribed speech into well-structured paragraphs with proper punctuation and headings where appropriate:"]

\* line 100 without the cleanup default
PromptWithoutFallback(task) == Get(prompts, task, "")

\* line 100: prompts.get(request.task, prompts["cleanup"])
PromptFor(task) == Get(prompts, task, prompts["cleanup"])

\* line 110: f"{prompt}\n\n{request.text}"
Content(prompt, text) == prompt \o "\n\n" \o text

\* message.content[0].text: the remote model's reply, a function of the prompt.
Reply(content) == "<<" \o content \o ">>"

\* lines 114-119
EnhanceBody(request, enhanced) ==
    [success |-> TRUE,
     original |-> request.text,
     enhanced |-> enhanced,
     task |-> request.task]

\* line 121
EnhancementFailed(e_str) ==
    HTTPException(500, "Enhancement failed: " \o e_str)

\* lines 53-55: class EnhanceRequest
EnhanceRequest(text, task) == [text |-> text, task |-> task]

\* line 134 with task not passed on, so that the class default applies
EnhanceRequestDefaultTask(transcription, task) ==
    EnhanceRequest(transcription["text"], "cleanup")

\* line 134: EnhanceRequest(text=transcription["text"], task=task)
EnhanceRequestOf(transcription, task) ==
    EnhanceRequest(transcription["text"], task)

\* lines 137-143
ComposeBody(transcription, enhanced, task) ==
    [success |-> TRUE,
     raw_transcription |-> transcription["text"],
     enhanced_text |-> enhanced["enhanced"],
     language |-> transcription["language"],
     task |-> task]

\* lines 131-143 reporting the transcript when enhance_text raised
PartialSuccess(transcription, res, task) ==
    IF IsReturn(res)
    THEN Return(ComposeBody(transcription, res.body, task))
    ELSE Return([success |-> FALSE, raw_transcription |-> transcription["text"]])

\* lines 131-143: what transcribe_and_enhance answers, given the value
\* transcribe_audio returned and what enhance_text returned or raised
ComposeResponse(transcription, res, task) ==
    IF IsReturn(res)
    THEN Return(ComposeBody(transcription, res.body, task))
    ELSE res

\* line 66 with the filename check lost
NeverMissing(filename) == FALSE

\* line 66: `if not audio.filename`
NoFilename(filename) == filename = ""

\* line 87 leaving the file in place
UnlinkNothing(files, path) == files

\* line 87: os.unlink(tmp_path), when it succeeds
Unlink(files, path) == files \ {path}

\* ---------------------------------------------------------------- state
VARIABLES
    whisper_model,    \* the global of line 33: "None" or the loaded model
    api_key,          \* os.getenv("ANTHROPIC_API_KEY"), "" when not configured
    disk,             \* the temp files that exist: <<request, suffix>>
    running,          \* the coroutine holding the event loop, 0 when none
    pc,               \* each request's position in its handler
    req,              \* each request's inputs
    tmp_path,         \* transcribe_audio's local tmp_path, <<>> until line 74
    pending,          \* what try/except of lines 76-85 returns or raises
    outcome,          \* what the transcribe_audio call returned or raised
    enhance_request,  \* the EnhanceRequest enhance_text works on
    calls,            \* the external calls each request made, in order
    sent,             \* the content each request sent to messages.create
    response          \* what each request's handler returned or raised

vars == <<whisper_model, api_key, disk, running, pc, req, tmp_path, pending,
          outcome, enhance_request, calls, sent, response>>

NoRequest == [endpoint |-> "", filename |-> "", audio |-> "", task |-> ""]
NoEnhanceRequest == [text |-> "", task |-> ""]

Init ==
    /\ whisper_model = "None"
    /\ api_key \in {"", "sk-test"}
    /\ disk = {}
    /\ running = 0
    /\ pc = [r \in Reqs |-> "idle"]
    /\ req = [r \in Reqs |-> NoRequest]
    /\ tmp_path = [r \in Reqs |-> <<>>]
    /\ pending = [r \in Reqs |-> NoValue]
    /\ outcome = [r \in Reqs |-> NoValue]
    /\ enhance_request = [r \in Reqs |-> NoEnhanceRequest]
    /\ calls = [r \in Reqs |-> <<>>]
    /\ sent = [r \in Reqs |-> <<>>]
    /\ response = [r \in Reqs |-> NoValue]

\* Requests are numbered in the order they arrive.
MayArrive(r) ==
    /\ pc[r] = "idle"
    /\ running = 0
    /\ \A q \in Reqs : q < r => pc[q] # "idle"

\* ------------------------------------------------- transcribe_audio
\* lines 66-71: the filename check, then NamedTemporaryFile(delete=False).
\* The coroutine then waits at `await audio.read()`.
EnterTranscribe(r, filename) ==
    IF NoFilename(filename)
    THEN /\ outcome' = [outcome EXCEPT ![r] = HTTPException(400, "No audio file provided")]
         /\ response' = [response EXCEPT ![r] = HTTPException(400, "No audio file provided")]
         /\ pc' = [pc EXCEPT ![r] = "done"]
         /\ UNCHANGED <<disk, calls>>
    ELSE /\ disk' = disk \cup {<<r, Suffix(filename)>>}
         /\ calls' = [calls EXCEPT ![r] = Append(@, "NamedTemporaryFile")]
         /\ pc' = [pc EXCEPT ![r] = "read"]
         /\ UNCHANGED <<outcome, response>>

\* POST /transcribe
PostTranscribe(r) ==
    \E filename \in Filenames :
        /\ MayArrive(r)
        /\ req' = [req EXCEPT ![r] = [endpoint |-> "/transcribe", filename |-> filename,
                                      audio |-> "", task |-> ""]]
        /\ EnterTranscribe(r, filename)
        /\ UNCHANGED <<whisper_model, api_key, running, tmp_path, pending,
                       enhance_request, sent>>

\* POST /transcribe-and-enhance, line 131: await transcribe_audio(audio)
PostTranscribeAndEnhance(r) ==
    \E filename \in Filenames :
        /\ MayArrive(r)
        /\ req' = [req EXCEPT ![r] = [endpoint |-> "/transcribe-and-enhance",
                                      filename |-> filename, audio |-> "",
                                      task |-> ""]]
        /\ EnterTranscribe(r, filename)
        /\ UNCHANGED <<whisper_model, api_key, running, tmp_path, pending,
                       enhance_request, sent>>

\* lines 72-74: audio.read() resumes, tmp.write(content), tmp_path = tmp.name.
\* An exception of read or write leaves the `with` block, which closes the
\* file (delete=False keeps it on disk), and leaves the handler.
AudioRead(r) ==
    \E io \in {"ok", "read_error", "write_error"} :
      \E audio \in IF io = "read_error" THEN {""} ELSE Audios :
        /\ pc[r] = "read"
        /\ running = 0
        /\ calls' = [calls EXCEPT ![r] =
                        IF io = "read_error" THEN Append(@, "read")
                        ELSE @ \o <<"read", "write">>]
        /\ IF io = "ok"
           THEN /\ tmp_path' = [tmp_path EXCEPT ![r] =
                                   <<r, Suffix(req[r].filename)>>]
                /\ pc' = [pc EXCEPT ![r] = "try"]
                /\ running' = r
                /\ UNCHANGED <<outcome, response>>
           ELSE /\ outcome' = [outcome EXCEPT ![r] = LibError("OSError", io)]
                /\ response' = [response EXCEPT ![r] = LibError("OSError", io)]
                /\ pc' = [pc EXCEPT ![r] = "done"]
                /\ UNCHANGED <<tmp_path, running>>
        /\ req' = [req EXCEPT ![r].audio = audio]
        /\ UNCHANGED <<whisper_model, api_key, disk, pending,
                       enhance_request, sent>>

\* line 77 with get_whisper_model, lines 36-40; a load that raises is caught
\* at line 84.
GetWhisperModel(r) ==
    \E loads \in BOOLEAN :
        /\ pc[r] = "try"
        /\ running = r
        /\ IF ModelIsNone(whisper_model)
           THEN /\ calls' = [calls EXCEPT ![r] = Append(@, "load_model")]
                /\ IF loads
                   THEN /\ whisper_model' = LoadedModel
                        /\ pc' = [pc EXCEPT ![r] = "transcribe"]
                        /\ UNCHANGED pending
                   ELSE /\ \E s \in StrOf(LibError("RuntimeError", "load failed")) :
                               pending' = [pending EXCEPT ![r] = TranscriptionFailed(s)]
                        /\ pc' = [pc EXCEPT ![r] = "finally"]
                        /\ UNCHANGED whisper_model
           ELSE /\ loads
                /\ pc' = [pc EXCEPT ![r] = "transcribe"]
                /\ UNCHANGED <<whisper_model, calls, pending>>
        /\ UNCHANGED <<api_key, disk, running, req, tmp_path, outcome,
                       enhance_request, sent, response>>

\* lines 78-85: model.transcribe(tmp_path), the return value or the except clause
ModelTranscribe(r) ==
    \E ok \in BOOLEAN :
        /\ pc[r] = "transcribe"
        /\ running = r
        /\ calls' = [calls EXCEPT ![r] = Append(@, "transcribe")]
        /\ IF ok
           THEN pending' = [pending EXCEPT ![r] =
                               Return(TranscribeBody(WhisperResult(req[r].audio)))]
           ELSE \E s \in StrOf(LibError("RuntimeError", "decode failed")) :
                    pending' = [pending EXCEPT ![r] = TranscriptionFailed(s)]
        /\ pc' = [pc EXCEPT ![r] = "finally"]
        /\ UNCHANGED <<whisper_model, api_key, disk, running, req, tmp_path,
                       outcome, enhance_request, sent, response>>

\* What leaves the finally clause of lines 86-87: an exception of os.unlink
\* replaces the return value or exception that was pending.
AfterFinally(was_pending, unlinked) ==
    IF unlinked THEN was_pending ELSE LibError("OSError", "unlink_error")

\* lines 86-87 and the return to the caller: the /transcribe request ends;
\* transcribe_and_enhance goes on to line 134 when a value came back.
Finally(r) ==
    \E unlinked \in BOOLEAN :
        LET out == AfterFinally(pending[r], unlinked)
            goes_on == req[r].endpoint = "/transcribe-and-enhance" /\ IsReturn(out)
        IN
        /\ pc[r] = "finally"
        /\ running = r
        /\ calls' = [calls EXCEPT ![r] = Append(@, "unlink")]
        /\ disk' = IF unlinked THEN Unlink(disk, tmp_path[r]) ELSE disk
        /\ outcome' = [outcome EXCEPT ![r] = out]
        /\ IF goes_on
           THEN /\ \E task \in TaskInputs :
                       /\ req' = [req EXCEPT ![r].task = task]
                       /\ enhance_request' = [enhance_request EXCEPT ![r] =
                              EnhanceRequestOf(out.body, task)]
                /\ pc' = [pc EXCEPT ![r] = "enhance"]
                /\ UNCHANGED <<running, response>>
           ELSE /\ response' = [response EXCEPT ![r] = out]
                /\ pc' = [pc EXCEPT ![r] = "done"]
                /\ running' = 0
                /\ UNCHANGED <<req, enhance_request>>
        /\ UNCHANGED <<whisper_model, api_key, tmp_path, pending, sent>>

\* ------------------------------------------------------ enhance_text
\* POST /enhance
PostEnhance(r) ==
    \E text \in Texts, task \in TaskInputs :
        /\ MayArrive(r)
        /\ req' = [req EXCEPT ![r] = [endpoint |-> "/enhance", filename |-> "",
                                      audio |-> "", task |-> task]]
        /\ enhance_request' = [enhance_request EXCEPT ![r] = EnhanceRequest(text, task)]
        /\ pc' = [pc EXCEPT ![r] = "enhance"]
        /\ running' = r
        /\ UNCHANGED <<whisper_model, api_key, disk, tmp_path, pending, outcome,
                       calls, sent, response>>

\* What the caller of enhance_text does with its result `res`: /enhance
\* answers with it; transcribe_and_enhance builds lines 137-143 from a value
\* and lets an exception through.
LeaveEnhance(r, res) ==
    /\ response' = [response EXCEPT ![r] =
           IF req[r].endpoint = "/transcribe-and-enhance"
           THEN ComposeResponse(outcome[r].body, res, req[r].task)
           ELSE res]
    /\ pc' = [pc EXCEPT ![r] = "done"]
    /\ running' = 0

\* lines 45-50: the exception get_claude_client raises, NoValue when the key is set
ClientError(key) ==
    IF key = "" THEN HTTPException(500, "ANTHROPIC_API_KEY not configured")
    ELSE NoValue

\* lines 100-103 with get_claude_client, lines 45-50; its HTTPException is
\* raised inside the try and caught by `except Exception` at line 120.
GetClaudeClient(r) ==
    /\ pc[r] = "enhance"
    /\ running = r
    /\ IF IsRaise(ClientError(api_key))
       THEN \E s \in StrOf(ClientError(api_key)) :
                LeaveEnhance(r, EnhancementFailed(s))
       ELSE /\ pc' = [pc EXCEPT ![r] = "create"]
            /\ UNCHANGED <<running, response>>
    /\ UNCHANGED <<whisper_model, api_key, disk, req, tmp_path, pending, outcome,
                   enhance_request, calls, sent>>

\* lines 104-121: client.messages.create and the return value or except clause
MessagesCreate(r) ==
    \E ok \in BOOLEAN :
        LET content == Content(PromptFor(enhance_request[r].task),
                               enhance_request[r].text) IN
        /\ pc[r] = "create"
        /\ running = r
        /\ calls' = [calls EXCEPT ![r] = Append(@, "messages.create")]
        /\ sent' = [sent EXCEPT ![r] = Append(@, content)]
        /\ IF ok
           THEN LeaveEnhance(r, Return(EnhanceBody(enhance_request[r], Reply(content))))
           ELSE \E s \in StrOf(LibError("APIError", "Connection error.")) :
                    LeaveEnhance(r, EnhancementFailed(s))
        /\ UNCHANGED <<whisper_model, api_key, disk, req, tmp_path, pending,
                       outcome, enhance_request>>

\* ------------------------------------------------------------ behaviour
Next ==
    \E r \in Reqs :
        \/ PostTranscribe(r)
        \/ PostTranscribeAndEnhance(r)
        \/ PostEnhance(r)
        \/ AudioRead(r)
        \/ GetWhisperModel(r)
        \/ ModelTranscribe(r)
        \/ Finally(r)
        \/ GetClaudeClient(r)
        \/ MessagesCreate(r)

Spec == Init /\ [][Next]_vars

\* Concurrent first-time dispatch: every request is a /transcribe request and
\* all of them are waiting at line 72 before any of them goes on.
AllDispatched == \A r \in Reqs : pc[r] # "idle"

NextConcurrent ==
    \E r \in Reqs :
        \/ PostTranscribe(r)
        \/ AllDispatched /\ AudioRead(r)
        \/ GetWhisperModel(r)
        \/ ModelTranscribe(r)
        \/ Finally(r)

SpecConcurrent == Init /\ [][NextConcurrent]_vars

\* ------------------------------------------------------------ vocabulary
Done(r) == pc[r] = "done"
AllDone == \A r \in Reqs : Done(r)

\* The number of times request r made the external call c.
Count(r, c) == Cardinality({i \in DOMAIN calls[r] : calls[r][i] = c})
Called(r, c) == Count(r, c) > 0

StartsWith(s, prefix) ==
    /\ Len(s) >= Len(prefix)
    /\ SubSeq(s, 1, Len(prefix)) = prefix

IsTranscribe(r) == req[r].endpoint = "/transcribe"
IsEnhance(r)    == req[r].endpoint = "/enhance"
IsCompose(r)    == req[r].endpoint = "/transcribe-and-enhance"

\* The temp files request r created that still exist.
Owned(r) == {p \in disk : p[1] = r}

\* whisper.load_model invocations: all of them, those that raised, those
\* that returned a model.
Loaders == {r \in Reqs : Called(r, "load_model")}
LoadCount ==
    Cardinality(UNION {{<<r, i>> : i \in {j \in DOMAIN calls[r] :
                                            calls[r][j] = "load_model"}} :
                       r \in Reqs})
LoadReturned(r) ==
    Called(r, "load_model") /\ (pc[r] = "transcribe" \/ Called(r, "transcribe"))
LoadRaised(r) == Called(r, "load_model") /\ ~LoadReturned(r)
ReachedTranscribe(r) == pc[r] = "transcribe" \/ Called(r, "transcribe")

\* The transcribe_audio call of request r is over.
LeftTranscribe(r) == outcome[r] # NoValue

\* ---------------------------------------------------------------- C1
\* C1 as stated: when the /transcribe requests of SpecConcurrent, all
\* dispatched while the handle is empty, have ended and any of them got to
\* get_whisper_model, whisper.load_model was invoked exactly once in total.
C1_ExactlyOneLoadInvocation ==
    (AllDone /\ \E r \in Reqs : tmp_path[r] # <<>>) => LoadCount = 1

\* C1 amended: in every interleaving of concurrently dispatched /transcribe
\* requests at most one load_model invocation returns a model, exactly one
\* has returned once any request gets to model.transcribe, and every other
\* invocation is one that raised.
C1_OneLoadReturns ==
    /\ Cardinality({r \in Reqs : LoadReturned(r)}) <= 1
    /\ (\E r \in Reqs : ReachedTranscribe(r)) =>
           Cardinality({r \in Reqs : LoadReturned(r)}) = 1
    /\ LoadCount = Cardinality({r \in Reqs : LoadReturned(r)})
                   + Cardinality({r \in Reqs : LoadRaised(r)})
    /\ (whisper_model = "None") = ({r \in Reqs : LoadReturned(r)} = {})

\* Two concurrently dispatched requests both got to model.transcribe after
\* one load.
C1_Witness ==
    \E r1, r2 \in Reqs :
        /\ r1 # r2
        /\ Called(r1, "transcribe") /\ Called(r2, "transcribe")
        /\ LoadCount = 1

\* ---------------------------------------------------------------- C2
\* C2 as stated: once transcribe_audio has returned or raised after entering
\* its try block (transcription succeeded, or load or transcribe raised),
\* the temp file it created no longer exists.
C2_TempFileGone ==
    \A r \in Reqs :
        (LeftTranscribe(r) /\ tmp_path[r] # <<>>) => tmp_path[r] \notin disk

\* C2 amended: once transcribe_audio has returned or raised after entering
\* its try block, os.unlink was called exactly once on the temp file, and the
\* file no longer exists unless that os.unlink itself raised.
C2_TempFileGoneUnlessUnlinkRaised ==
    \A r \in Reqs :
        (LeftTranscribe(r) /\ tmp_path[r] # <<>>) =>
            /\ Count(r, "unlink") = 1
            /\ tmp_path[r] \in disk =>
                   outcome[r] = LibError("OSError", "unlink_error")
            /\ Owned(r) \subseteq {tmp_path[r]}

\* A request whose transcription raised has left the handler and its file is gone.
C2_Witness ==
    \E r \in Reqs :
        /\ LeftTranscribe(r)
        /\ IsRaise(pending[r])
        /\ Called(r, "unlink")
        /\ Owned(r) = {}

\* ---------------------------------------------------------------- C3
\* C3: a failure to delete the temp file never changes the outcome of
\* /transcribe: the caller receives the success response when transcription
\* succeeded and the 500 "Transcription failed" error when it failed.
C3_UnlinkFailureKeepsOutcome ==
    \A r \in Reqs :
        (IsTranscribe(r) /\ Done(r) /\ Called(r, "unlink")) =>
            /\ IsReturn(pending[r]) =>
                   /\ IsReturn(response[r])
                   /\ response[r].body = pending[r].body
            /\ IsRaise(pending[r]) =>
                   /\ Status(response[r]) = 500
                   /\ response[r].exc = "HTTPException"
                   /\ StartsWith(response[r].detail, "Transcription failed")

\* ---------------------------------------------------------------- C4
\* C4: with no API credential configured, /enhance ends with a 500 error
\* before any remote completion call, and the error is a configuration error
\* whose detail is not the generic "Enhancement failed" one.
C4_ConfigurationError ==
    \A r \in Reqs :
        (IsEnhance(r) /\ Done(r) /\ api_key = "") =>
            /\ Status(response[r]) = 500
            /\ ~Called(r, "messages.create")
            /\ response[r].exc = "HTTPException"
            /\ ~StartsWith(response[r].detail, "Enhancement failed")

\* ---------------------------------------------------------------- C5
\* C5: a /transcribe or /transcribe-and-enhance request whose upload has no
\* filename ends with a 400 error, having created no temp file and having
\* neither loaded nor invoked the model (it made no external call at all).
C5_NoFilenameIs400 ==
    \A r \in Reqs :
        ((IsTranscribe(r) \/ IsCompose(r)) /\ req[r].filename = "") =>
            /\ Done(r)
            /\ IsRaise(response[r])
            /\ Status(response[r]) = 400
            /\ calls[r] = <<>>
            /\ Owned(r) = {}
            /\ tmp_path[r] = <<>>

\* A /transcribe-and-enhance request without a filename has ended while the
\* model is loaded for another request.
C5_Witness ==
    \E r \in Reqs :
        /\ IsCompose(r)
        /\ req[r].filename = ""
        /\ Done(r)
        /\ whisper_model # "None"

\* ---------------------------------------------------------------- C6
\* C6: in /transcribe-and-enhance enhance_text starts only after
\* transcribe_audio has returned a value; if transcribe_audio raised, the
\* remote API is never called and that exception is the request's error; if
\* enhance_text raised, the request ends with the 500 "Enhancement failed"
\* error and no success payload; no call is made twice.
C6_EnhanceAfterTranscribe ==
    \A r \in Reqs :
        IsCompose(r) =>
            /\ (pc[r] \in {"enhance", "create"} \/ Called(r, "messages.create")
                    \/ sent[r] # <<>>)
                   => IsReturn(outcome[r])
            /\ (Done(r) /\ ~IsReturn(outcome[r])) =>
                   /\ ~Called(r, "messages.create")
                   /\ response[r] = outcome[r]
                   /\ IsRaise(response[r])
            /\ (Done(r) /\ IsReturn(outcome[r])
                    /\ (api_key = "" \/ ~IsReturn(response[r]))) =>
                   /\ IsRaise(response[r])
                   /\ Status(response[r]) = 500
                   /\ StartsWith(response[r].detail, "Enhancement failed")
                   /\ "body" \notin DOMAIN response[r]
            /\ \A c \in {"load_model", "transcribe", "unlink", "messages.create"} :
                   Count(r, c) <= 1

\* A /transcribe-and-enhance request whose transcription succeeded ended
\* with the enhancement error after its one remote call.
C6_Witness ==
    \E r \in Reqs :
        /\ IsCompose(r)
        /\ Done(r)
        /\ IsReturn(outcome[r])
        /\ Called(r, "messages.create")
        /\ IsRaise(response[r])

\* ---------------------------------------------------------------- C7
\* C7: a successful /transcribe-and-enhance response has raw_transcription
\* and language equal to the text and language of a successful /transcribe on
\* the same audio, and enhanced_text equal to the enhanced field of a
\* successful /enhance given that text and the same task.
C7_CompositionEquivalence ==
    \A r1, r2 \in Reqs :
        (IsCompose(r1) /\ Done(r1) /\ IsReturn(response[r1])
            /\ Done(r2) /\ IsReturn(response[r2])) =>
            /\ (IsTranscribe(r2) /\ req[r2].audio = req[r1].audio) =>
                   /\ response[r1].body.raw_transcription = response[r2].body.text
                   /\ response[r1].body.language = response[r2].body.language
            /\ (IsEnhance(r2)
                    /\ enhance_request[r2].text = response[r1].body.raw_transcription
                    /\ enhance_request[r2].task = req[r1].task) =>
                   /\ response[r1].body.enhanced_text = response[r2].body.enhanced
                   /\ response[r1].body.task = response[r2].body.task

\* A successful /transcribe-and-enhance with task summarize next to a
\* successful /enhance of the same text and task.
C7_Witness ==
    \E r1, r2 \in Reqs :
        /\ IsCompose(r1) /\ Done(r1) /\ IsReturn(response[r1])
        /\ req[r1].task = "summarize"
        /\ IsEnhance(r2) /\ Done(r2) /\ IsReturn(response[r2])
        /\ enhance_request[r2].text = response[r1].body.raw_transcription
        /\ enhance_request[r2].task = "summarize"

\* ---------------------------------------------------------------- C8
\* C8 as stated: over any sequence of requests at most one model load is
\* invoked, and a non-empty model handle is never reloaded, replaced or reset.
C8_AtMostOneLoad ==
    [][/\ LoadCount' <= 1
       /\ whisper_model # "None" =>
              (whisper_model' = whisper_model /\ LoadCount' = LoadCount)]_vars

\* C8 amended: over any sequence of requests a load is invoked only while
\* the handle is empty, the handle becomes non-empty only by a load, and a
\* non-empty handle is never reloaded, replaced or reset; a load that raised
\* leaves the handle empty, so a later request invokes the load again.
C8_LoadedOnceNeverReloaded ==
    [][/\ LoadCount' > LoadCount => whisper_model = "None"
       /\ whisper_model' # whisper_model =>
              (whisper_model = "None" /\ LoadCount' = LoadCount + 1)
       /\ whisper_model # "None" =>
              (whisper_model' = whisper_model /\ LoadCount' = LoadCount)]_vars

\* The handle is loaded after an earlier load raised, and a request has
\* used the loaded handle.
C8_Witness ==
    \E r1, r2 \in Reqs :
        /\ LoadRaised(r1)
        /\ Called(r2, "transcribe")
        /\ whisper_model # "None"

\* ---------------------------------------------------------------- C9
\* C9: the release of the temp file runs on every exit path of a handler
\* that created one, also when reading the upload or writing the file
\* fails: a request that has ended called os.unlink for the file it created.
C9_ReleaseOnEveryExit ==
    \A r \in Reqs :
        (Done(r) /\ Called(r, "NamedTemporaryFile")) => Called(r, "unlink")

\* ---------------------------------------------------------------- C10
\* The instruction each task is documented to select.
ExpectedInstruction(task) ==
    CASE task = "summarize" ->
           "Summarize this transcribed speech concisely, capturing the key points:"
      [] task = "action_items" ->
           "Extract action items and key tasks from this transcribed speech. Format as a bullet list:"
      [] task = "format" ->
           "Format this transcribed speech into well-structured paragraphs with proper punctuation and headings where appropriate:"
      [] OTHER ->
           "Clean up this transcribed speech. Fix grammar, punctuation, and formatting while preserving the original meaning. Return only the cleaned text:"

\* C10: what enhance_text sends is the instruction of the task (the cleanup
\* instruction for any task outside the four), a blank line, then the input
\* text verbatim; a task outside the four raises no error: with a credential
\* configured the remote call is made, and the request fails only with the
\* remote call.
C10_PromptSent ==
    \A r \in Reqs :
        /\ sent[r] # <<>> =>
               /\ Len(sent[r]) = 1
               /\ sent[r][1] = ExpectedInstruction(enhance_request[r].task)
                                   \o "\n\n" \o enhance_request[r].text
        /\ (IsEnhance(r) /\ Done(r) /\ api_key # "") =>
               /\ Len(sent[r]) = 1
               /\ IsReturn(response[r]) \/
                      StartsWith(response[r].detail, "Enhancement failed")
               /\ IsReturn(response[r]) =>
                      /\ response[r].body.original = enhance_request[r].text
                      /\ response[r].body.task = enhance_request[r].task

\* An /enhance request with a task outside the four was answered with success.
C10_Witness ==
    \E r \in Reqs :
        /\ IsEnhance(r)
        /\ enhance_request[r].task = "translate"
        /\ sent[r] # <<>>
        /\ IsReturn(response[r])

====
